---------------------------- MODULE Spec2Model ----------------------------
(***************************************************************************)
(* Ledger domain model and Finance Service of the personal finance         *)
(* tracker (models.py, services.py, database.py, exceptions.py).           *)
(*                                                                         *)
(* Money amounts are Python floats in the source; here they are exact      *)
(* integers (whole currency units), so sums and comparisons are exact.     *)
(* A date string 'YYYY-MM-DD' is the triple <<year, month, day>> of its    *)
(* fields; strptime validates the fields and yields a calendar date.       *)
(* A dict is the sequence of its [key, value] items in insertion order.    *)
(***************************************************************************)
EXTENDS Integers, Sequences, FiniteSets, TLC

VARIABLES
    accounts,   \* User.accounts: name -> Account object
    goals,      \* SavingsGoal objects (FinanceService._goals)
    debts,      \* Debt objects (FinanceService._debts)
    current,    \* FinanceService._current_account_name
    db,         \* DatabaseManager tables
    res,        \* the most recent call: its arguments and its outcome
    applied     \* history: per account, initial balance and applied sums

vars == <<accounts, goals, debts, current, db, res, applied>>

-----------------------------------------------------------------------------
(* Bounds of the model *)

MaxTx == 2          \* longest transaction list explored
MaxBalance == 3     \* largest balance explored
MaxAmount == 2      \* largest amount passed to a call
MaxInitial == 1     \* largest initial balance of an account
MaxReportTx == 2    \* longest history a report is taken over
MaxTarget == 5      \* largest SavingsGoal.target_amount explored
MaxGoals == 1       \* most goals the service holds
MaxAnalysisTx == 6  \* longest history a spending analysis is taken over
MaxDebts == 2       \* most debts the service holds
MaxRows == 3        \* most rows of the transactions table, taken alone

-----------------------------------------------------------------------------
(* Values *)

None == "None"
NoError == "NoError"
ValueError == "ValueError"
InsufficientFundsError == "InsufficientFundsError"
ZeroDivisionError == "ZeroDivisionError"
SqliteError == "sqlite3.Error"
IOError == "IOError"

INCOME == "Dokhid"             \* the income category literal "Дохід"
SAVINGS == "Zaoshchadzhennia"  \* "Заощадження", category of a goal contribution

Max(a, b) == IF a >= b THEN a ELSE b
Min(a, b) == IF a <= b THEN a ELSE b

RECURSIVE SumSeq(_)
SumSeq(s) == IF s = <<>> THEN 0 ELSE Head(s) + SumSeq(Tail(s))

-----------------------------------------------------------------------------
(* Dates: datetime.strptime(s, '%Y-%m-%d').date() and date comparison *)

IsLeap(y) == (y % 4 = 0 /\ y % 100 # 0) \/ y % 400 = 0

DaysInMonth(y, m) ==
    IF m = 2 THEN (IF IsLeap(y) THEN 29 ELSE 28)
    ELSE IF m \in {4, 6, 9, 11} THEN 30 ELSE 31

\* strptime succeeds exactly on a real calendar date
strptime_ok(s) == /\ s[1] \in 1..9999
                  /\ s[2] \in 1..12
                  /\ s[3] \in 1..DaysInMonth(s[1], s[2])

\* date.__le__: dates compare by (year, month, day)
date_le(a, b) ==
    \/ a[1] < b[1]
    \/ a[1] = b[1] /\ a[2] < b[2]
    \/ a[1] = b[1] /\ a[2] = b[2] /\ a[3] <= b[3]

-----------------------------------------------------------------------------
(* models.py: Transaction, CategorizedTransaction                          *)
(* A transaction object is [cls, amount, date, description, category];     *)
(* a plain Transaction has no category attribute (None here).              *)
(* Amounts are numbers in this model, so isinstance(amount, (int, float))  *)
(* holds of every argument.                                                *)

\* Transaction.__init__ rejecting negative amounts only
Transaction_accepts_zero(amount, date, description) ==
    IF amount < 0
    THEN [err |-> ValueError, obj |-> None]
    ELSE [err |-> NoError,
          obj |-> [cls |-> "Transaction", amount |-> amount, date |-> date,
                   description |-> description, category |-> None]]

\* Transaction.__init__: the object built, or the error raised
Transaction(amount, date, description) ==
    IF amount <= 0
    THEN [err |-> ValueError, obj |-> None]
    ELSE [err |-> NoError,
          obj |-> [cls |-> "Transaction", amount |-> amount, date |-> date,
                   description |-> description, category |-> None]]

\* CategorizedTransaction.__init__: super().__init__ then the category
CategorizedTransaction(amount, date, description, category) ==
    LET base == Transaction(amount, date, description)
    IN  IF base.err # NoError
        THEN base
        ELSE [err |-> NoError,
              obj |-> [base.obj EXCEPT !.cls = "CategorizedTransaction",
                                       !.category = category]]

\* isinstance(t, CategorizedTransaction)
IsCategorized(t) == t.cls = "CategorizedTransaction"

-----------------------------------------------------------------------------
(* models.py: Account, SavingsAccount                                      *)
(* An account object is [cls, balance, transactions, interest_rate]; a     *)
(* plain Account has no interest rate (0 here, never read).                *)

\* Account.__init__
Account(initial_balance) ==
    [cls |-> "Account", balance |-> initial_balance, transactions |-> <<>>,
     interest_rate |-> 0]

\* SavingsAccount.__init__: super().__init__ then the rate
SavingsAccount(initial_balance, interest_rate) ==
    [Account(initial_balance) EXCEPT !.cls = "SavingsAccount",
                                     !.interest_rate = interest_rate]

\* Account.add_transaction appending an expense without debiting it
Account_add_transaction_skips_debit(acc, t, is_income) ==
    IF ~is_income
    THEN IF t.amount > acc.balance
         THEN [account |-> acc, err |-> InsufficientFundsError,
               info |-> [balance |-> acc.balance, amount |-> t.amount]]
         ELSE [account |-> [acc EXCEPT !.transactions = Append(@, t)],
               err |-> NoError, info |-> None]
    ELSE [account |-> [acc EXCEPT !.balance = @ + t.amount,
                                  !.transactions = Append(@, t)],
          err |-> NoError, info |-> None]

\* Account.add_transaction appending before it checks the funds
Account_add_transaction_partial(acc, t, is_income) ==
    IF ~is_income
    THEN IF t.amount > acc.balance
         THEN [account |-> [acc EXCEPT !.transactions = Append(@, t)],
               err |-> InsufficientFundsError,
               info |-> [balance |-> acc.balance, amount |-> t.amount]]
         ELSE [account |-> [acc EXCEPT !.balance = @ - t.amount,
                                       !.transactions = Append(@, t)],
               err |-> NoError, info |-> None]
    ELSE [account |-> [acc EXCEPT !.balance = @ + t.amount,
                                  !.transactions = Append(@, t)],
          err |-> NoError, info |-> None]

\* Account.add_transaction without the funds check
Account_add_transaction_unguarded(acc, t, is_income) ==
    IF ~is_income
    THEN [account |-> [acc EXCEPT !.balance = @ - t.amount,
                                  !.transactions = Append(@, t)],
          err |-> NoError, info |-> None]
    ELSE [account |-> [acc EXCEPT !.balance = @ + t.amount,
                                  !.transactions = Append(@, t)],
          err |-> NoError, info |-> None]

\* Account.add_transaction rejecting an expense equal to the balance
Account_add_transaction_nonstrict(acc, t, is_income) ==
    IF ~is_income
    THEN IF t.amount >= acc.balance
         THEN [account |-> acc, err |-> InsufficientFundsError,
               info |-> [balance |-> acc.balance, amount |-> t.amount]]
         ELSE [account |-> [acc EXCEPT !.balance = @ - t.amount,
                                       !.transactions = Append(@, t)],
               err |-> NoError, info |-> None]
    ELSE [account |-> [acc EXCEPT !.balance = @ + t.amount,
                                  !.transactions = Append(@, t)],
          err |-> NoError, info |-> None]

\* Account.add_transaction: the account afterwards and the error raised
Account_add_transaction(acc, t, is_income) ==
    IF ~is_income
    THEN IF t.amount > acc.balance
         THEN [account |-> acc, err |-> InsufficientFundsError,
               info |-> [balance |-> acc.balance, amount |-> t.amount]]
         ELSE [account |-> [acc EXCEPT !.balance = @ - t.amount,
                                       !.transactions = Append(@, t)],
               err |-> NoError, info |-> None]
    ELSE [account |-> [acc EXCEPT !.balance = @ + t.amount,
                                  !.transactions = Append(@, t)],
          err |-> NoError, info |-> None]

\* Account.get_balance
Account_get_balance(acc) == acc.balance

RECURSIVE FilterByPeriod(_, _, _)
FilterByPeriod(txs, start, end) ==
    IF txs = <<>> THEN <<>>
    ELSE LET t == Head(txs)
             rest == FilterByPeriod(Tail(txs), start, end)
         IN  IF date_le(start, t.date) /\ date_le(t.date, end)
             THEN <<t>> \o rest ELSE rest

\* Account.get_transactions_by_period with the end of the period excluded
Account_get_transactions_by_period_exclusive_end(acc, start_date, end_date) ==
    IF ~strptime_ok(start_date) \/ ~strptime_ok(end_date)
    THEN [err |-> ValueError, value |-> <<>>]
    ELSE IF \E i \in 1..Len(acc.transactions) :
                ~strptime_ok(acc.transactions[i].date)
         THEN [err |-> ValueError, value |-> <<>>]
         ELSE [err |-> NoError,
               value |-> SelectSeq(FilterByPeriod(acc.transactions, start_date,
                                                  end_date),
                                   LAMBDA t : t.date # end_date)]

\* Account.get_transactions_by_period: parses both bounds, then every
\* transaction date while filtering; any parse failure raises ValueError
Account_get_transactions_by_period(acc, start_date, end_date) ==
    IF ~strptime_ok(start_date) \/ ~strptime_ok(end_date)
    THEN [err |-> ValueError, value |-> <<>>]
    ELSE IF \E i \in 1..Len(acc.transactions) :
                ~strptime_ok(acc.transactions[i].date)
         THEN [err |-> ValueError, value |-> <<>>]
         ELSE [err |-> NoError,
               value |-> FilterByPeriod(acc.transactions, start_date, end_date)]

\* SavingsAccount.apply_interest: the interest transaction is built first
\* (its constructor may raise), then added as income
SavingsAccount_apply_interest(acc, today) ==
    LET interest_amount == acc.balance * acc.interest_rate
        built == CategorizedTransaction(interest_amount, today,
                                        "Interest accrual", INCOME)
    IN  IF built.err # NoError
        THEN [account |-> acc, err |-> built.err, info |-> None]
        ELSE Account_add_transaction(acc, built.obj, TRUE)

-----------------------------------------------------------------------------
(* models.py: SpendingReport, IncomeReport                                 *)

\* dict.setdefault(key, 0) followed by dict[key] += amount
DictAdd(d, key, amount) ==
    IF \E i \in 1..Len(d) : d[i].key = key
    THEN [i \in 1..Len(d) |->
            IF d[i].key = key THEN [d[i] EXCEPT !.value = @ + amount] ELSE d[i]]
    ELSE Append(d, [key |-> key, value |-> 0 + amount])

DictKeys(d) == {d[i].key : i \in 1..Len(d)}
DictGet(d, key) == d[CHOOSE i \in 1..Len(d) : d[i].key = key].value

\* the spending fold without the income-category exclusion
RECURSIVE SpendingFold_counts_income(_, _)
SpendingFold_counts_income(txs, spending) ==
    IF txs = <<>> THEN spending
    ELSE LET t == Head(txs)
         IN  IF IsCategorized(t)
             THEN SpendingFold_counts_income(Tail(txs),
                                             DictAdd(spending, t.category, t.amount))
             ELSE SpendingFold_counts_income(Tail(txs), spending)

RECURSIVE SpendingFold(_, _)
SpendingFold(txs, spending) ==
    IF txs = <<>> THEN spending
    ELSE LET t == Head(txs)
         IN  IF IsCategorized(t) /\ t.category # INCOME
             THEN SpendingFold(Tail(txs), DictAdd(spending, t.category, t.amount))
             ELSE SpendingFold(Tail(txs), spending)

\* SpendingReport.generate
SpendingReport_generate(acc, start_date, end_date) ==
    LET period == Account_get_transactions_by_period(acc, start_date, end_date)
    IN  IF period.err # NoError THEN period
        ELSE [err |-> NoError, value |-> SpendingFold(period.value, <<>>)]

\* the income fold without the income-category restriction
RECURSIVE IncomeFold_all_categories(_, _)
IncomeFold_all_categories(txs, income) ==
    IF txs = <<>> THEN income
    ELSE LET t == Head(txs)
         IN  IF IsCategorized(t)
             THEN IncomeFold_all_categories(Tail(txs),
                                            DictAdd(income, t.description, t.amount))
             ELSE IncomeFold_all_categories(Tail(txs), income)

RECURSIVE IncomeFold(_, _)
IncomeFold(txs, income) ==
    IF txs = <<>> THEN income
    ELSE LET t == Head(txs)
         IN  IF IsCategorized(t) /\ t.category = INCOME
             THEN IncomeFold(Tail(txs), DictAdd(income, t.description, t.amount))
             ELSE IncomeFold(Tail(txs), income)

\* IncomeReport.generate
IncomeReport_generate(acc, start_date, end_date) ==
    LET period == Account_get_transactions_by_period(acc, start_date, end_date)
    IN  IF period.err # NoError THEN period
        ELSE [err |-> NoError, value |-> IncomeFold(period.value, <<>>)]

-----------------------------------------------------------------------------
(* models.py: SavingsGoal                                                  *)
(* A goal object is [id, name, target_amount, current_amount].             *)

\* SavingsGoal.__init__
SavingsGoal(id, name, target_amount, current_amount) ==
    [id |-> id, name |-> name, target_amount |-> target_amount,
     current_amount |-> current_amount]

\* SavingsGoal.add_contribution without the clamp to the target
SavingsGoal_add_contribution_unclamped(g, amount) ==
    IF amount <= 0
    THEN [goal |-> g, err |-> ValueError]
    ELSE [goal |-> [g EXCEPT !.current_amount = @ + amount], err |-> NoError]

\* SavingsGoal.add_contribution rejecting only negative amounts
SavingsGoal_add_contribution_accepts_zero(g, amount) ==
    IF amount < 0
    THEN [goal |-> g, err |-> ValueError]
    ELSE LET added == [g EXCEPT !.current_amount = @ + amount]
         IN  IF added.current_amount > added.target_amount
             THEN [goal |-> [added EXCEPT !.current_amount = added.target_amount],
                   err |-> NoError]
             ELSE [goal |-> added, err |-> NoError]

\* SavingsGoal.add_contribution: the goal afterwards and the error raised
SavingsGoal_add_contribution(g, amount) ==
    IF amount <= 0
    THEN [goal |-> g, err |-> ValueError]
    ELSE LET added == [g EXCEPT !.current_amount = @ + amount]
         IN  IF added.current_amount > added.target_amount
             THEN [goal |-> [added EXCEPT !.current_amount = added.target_amount],
                   err |-> NoError]
             ELSE [goal |-> added, err |-> NoError]

\* SavingsGoal.get_progress without the zero-target case
SavingsGoal_get_progress_unguarded(g) ==
    [err |-> IF g.target_amount = 0 THEN ZeroDivisionError ELSE NoError,
     num |-> g.current_amount * 100, den |-> g.target_amount]

\* SavingsGoal.get_progress: the percentage as the exact fraction num/den
SavingsGoal_get_progress(g) ==
    IF g.target_amount = 0
    THEN [err |-> NoError, num |-> 100, den |-> 1]
    ELSE [err |-> NoError, num |-> g.current_amount * 100,
          den |-> g.target_amount]

-----------------------------------------------------------------------------
(* models.py: Debt                                                         *)

\* Debt.__init__: no validation
Debt(id, name, amount, due_date, is_loan, is_paid) ==
    [id |-> id, name |-> name, amount |-> amount, due_date |-> due_date,
     is_loan |-> is_loan, is_paid |-> is_paid]

-----------------------------------------------------------------------------
(* database.py: DatabaseManager                                            *)
(* The database is [transactions, goals, goal_seq, debts, debt_seq]: the   *)
(* rows of the three tables in rowid order and the AUTOINCREMENT counters  *)
(* of savings_goals and debts.                                             *)
(* Whether a statement fails is an input (ok) of each call; a failed       *)
(* statement writes nothing.                                               *)

\* create_tables on a new file
EmptyDb ==
    [transactions |-> <<>>, goals |-> <<>>, goal_seq |-> 0,
     debts |-> <<>>, debt_seq |-> 0]

\* int(flag) as stored, bool(column) as loaded
int(flag) == IF flag THEN 1 ELSE 0
bool(column) == column # 0

\* the row (id, name, amount, due_date, is_loan, is_paid) of a debt
DebtRow(id, debt) ==
    [id |-> id, name |-> debt.name, amount |-> debt.amount,
     due_date |-> debt.due_date, is_loan |-> int(debt.is_loan),
     is_paid |-> int(debt.is_paid)]

\* DatabaseManager.save_debt: inserts and returns lastrowid; errors propagate
DatabaseManager_save_debt(d, debt, ok) ==
    IF ok
    THEN [err |-> NoError, id |-> d.debt_seq + 1,
          db |-> [d EXCEPT !.debt_seq = @ + 1,
                           !.debts = Append(@, DebtRow(d.debt_seq + 1, debt))]]
    ELSE [err |-> SqliteError, id |-> 0, db |-> d]

\* DatabaseManager.update_debt without the WHERE clause: every row is set
DatabaseManager_update_debt_every_row(d, debt, ok) ==
    IF ok
    THEN [err |-> NoError,
          db |-> [d EXCEPT !.debts =
                    [i \in 1..Len(@) |-> DebtRow(@[i].id, debt)]]]
    ELSE [err |-> SqliteError, db |-> d]

\* DatabaseManager.update_debt: UPDATE ... WHERE id = ?; errors propagate
DatabaseManager_update_debt(d, debt, ok) ==
    IF ok
    THEN [err |-> NoError,
          db |-> [d EXCEPT !.debts =
                    [i \in 1..Len(@) |->
                       IF @[i].id = debt.id THEN DebtRow(debt.id, debt)
                       ELSE @[i]]]]
    ELSE [err |-> SqliteError, db |-> d]

\* DatabaseManager.load_debts
DatabaseManager_load_debts(d) ==
    [i \in 1..Len(d.debts) |->
        Debt(d.debts[i].id, d.debts[i].name, d.debts[i].amount,
             d.debts[i].due_date, bool(d.debts[i].is_loan),
             bool(d.debts[i].is_paid))]

\* DatabaseManager.save_transaction: sqlite3.Error is caught, logged and
\* rolled back; nothing is raised
DatabaseManager_save_transaction(d, account_name, t, is_income, ok) ==
    IF ok
    THEN [d EXCEPT !.transactions =
            Append(@, [account_name |-> account_name, amount |-> t.amount,
                       date |-> t.date, description |-> t.description,
                       category |-> t.category,
                       is_income |-> IF is_income THEN 1 ELSE 0])]
    ELSE d

\* the loop of load_transactions_for_account over the fetched rows: each row
\* is built into a CategorizedTransaction (whose constructor may raise) and
\* added to or taken from the balance by its income flag
RECURSIVE LoadRows(_, _, _)
LoadRows(rows, transactions, balance) ==
    IF rows = <<>>
    THEN [err |-> NoError, transactions |-> transactions, balance |-> balance]
    ELSE LET row == Head(rows)
             t == CategorizedTransaction(row.amount, row.date, row.description,
                                         row.category)
         IN  IF t.err # NoError
             THEN [err |-> t.err, transactions |-> <<>>, balance |-> 0]
             ELSE LoadRows(Tail(rows), Append(transactions, t.obj),
                           IF row.is_income # 0 THEN balance + row.amount
                           ELSE balance - row.amount)

\* SELECT ... FROM transactions WHERE account_name = ?, in rowid order
RECURSIVE SelectTransactions(_, _)
SelectTransactions(rows, account_name) ==
    IF rows = <<>> THEN <<>>
    ELSE IF Head(rows).account_name = account_name
         THEN <<Head(rows)>> \o SelectTransactions(Tail(rows), account_name)
         ELSE SelectTransactions(Tail(rows), account_name)

\* DatabaseManager.load_transactions_for_account: sqlite3.Error is caught and
\* logged, and an empty list with balance 0 is returned
DatabaseManager_load_transactions_for_account(d, account_name, ok) ==
    IF ok THEN LoadRows(SelectTransactions(d.transactions, account_name), <<>>, 0)
    ELSE [err |-> NoError, transactions |-> <<>>, balance |-> 0]

\* DatabaseManager.save_goal: inserts and returns lastrowid; errors propagate
DatabaseManager_save_goal(d, goal, ok) ==
    IF ok
    THEN [err |-> NoError, id |-> d.goal_seq + 1,
          db |-> [d EXCEPT !.goal_seq = @ + 1,
                           !.goals = Append(@, [id |-> d.goal_seq + 1,
                                                name |-> goal.name,
                                                target_amount |-> goal.target_amount,
                                                current_amount |-> goal.current_amount])]]
    ELSE [err |-> SqliteError, id |-> 0, db |-> d]

\* DatabaseManager.update_goal: UPDATE ... WHERE id = ?; errors propagate
DatabaseManager_update_goal(d, goal, ok) ==
    IF ok
    THEN [err |-> NoError,
          db |-> [d EXCEPT !.goals =
                    [i \in 1..Len(@) |->
                       IF @[i].id = goal.id
                       THEN [id |-> goal.id, name |-> goal.name,
                             target_amount |-> goal.target_amount,
                             current_amount |-> goal.current_amount]
                       ELSE @[i]]]]
    ELSE [err |-> SqliteError, db |-> d]

\* DatabaseManager.load_goals
DatabaseManager_load_goals(d) ==
    [i \in 1..Len(d.goals) |->
        SavingsGoal(d.goals[i].id, d.goals[i].name, d.goals[i].target_amount,
                    d.goals[i].current_amount)]

-----------------------------------------------------------------------------
(* services.py: FinanceService                                             *)
(* The service and what it reaches is w = [accounts, current, goals,       *)
(* debts, db]: the user's accounts, _current_account_name, _goals, _debts  *)
(* and the database.                                                       *)
(* Every operation yields the state afterwards, the error raised, the      *)
(* error's fields and the storage calls made, each with whether it         *)
(* succeeded.                                                              *)

DbCall(name, ok) == [call |-> name, ok |-> ok]

Outcome(w, err, info, calls) ==
    [w |-> w, err |-> err, info |-> info, calls |-> calls]

\* FinanceService.set_current_account recording the name before looking it up
FinanceService_set_current_account_records_first(w, name) ==
    IF name \in DOMAIN w.accounts
    THEN Outcome([w EXCEPT !.current = name], NoError, None, <<>>)
    ELSE Outcome([w EXCEPT !.current = name], ValueError, None, <<>>)

\* FinanceService.set_current_account
FinanceService_set_current_account(w, name) ==
    IF name \in DOMAIN w.accounts
    THEN Outcome([w EXCEPT !.current = name], NoError, None, <<>>)
    ELSE Outcome(w, ValueError, None, <<>>)

\* FinanceService.get_current_account: "not name" holds of None and of ""
FinanceService_get_current_account(w) ==
    IF w.current = None \/ w.current = ""
    THEN [err |-> ValueError, name |-> None]
    ELSE [err |-> NoError, name |-> w.current]

\* FinanceService.add_transaction keeping the caller's category for an income
FinanceService_add_transaction_keeps_category(w, amount, description, category, is_income, today, ok) ==
    LET made == CategorizedTransaction(amount, today, description, category)
        cur == FinanceService_get_current_account(w)
    IN  IF made.err # NoError THEN Outcome(w, made.err, None, <<>>)
        ELSE IF cur.err # NoError THEN Outcome(w, cur.err, None, <<>>)
        ELSE LET out == Account_add_transaction(w.accounts[cur.name], made.obj,
                                                is_income)
             IN  IF out.err # NoError THEN Outcome(w, out.err, out.info, <<>>)
                 ELSE Outcome(
                        [w EXCEPT !.accounts[cur.name] = out.account,
                                  !.db = DatabaseManager_save_transaction(
                                             @, w.current, made.obj, is_income, ok)],
                        NoError, None, <<DbCall("save_transaction", ok)>>)

\* FinanceService.add_transaction undoing the account's change when
\* save_transaction fails
FinanceService_add_transaction_rolls_back(w, amount, description, category, is_income, today, ok) ==
    LET cat == IF is_income THEN INCOME ELSE category
        made == CategorizedTransaction(amount, today, description, cat)
        cur == FinanceService_get_current_account(w)
    IN  IF made.err # NoError THEN Outcome(w, made.err, None, <<>>)
        ELSE IF cur.err # NoError THEN Outcome(w, cur.err, None, <<>>)
        ELSE LET out == Account_add_transaction(w.accounts[cur.name], made.obj,
                                                is_income)
             IN  IF out.err # NoError THEN Outcome(w, out.err, out.info, <<>>)
                 ELSE IF ~ok
                 THEN Outcome(w, NoError, None, <<DbCall("save_transaction", ok)>>)
                 ELSE Outcome(
                        [w EXCEPT !.accounts[cur.name] = out.account,
                                  !.db = DatabaseManager_save_transaction(
                                             @, w.current, made.obj, is_income, ok)],
                        NoError, None, <<DbCall("save_transaction", ok)>>)

\* FinanceService.add_transaction saving the row before the account has
\* accepted the transaction
FinanceService_add_transaction_saves_first(w, amount, description, category, is_income, today, ok) ==
    LET cat == IF is_income THEN INCOME ELSE category
        made == CategorizedTransaction(amount, today, description, cat)
        cur == FinanceService_get_current_account(w)
    IN  IF made.err # NoError THEN Outcome(w, made.err, None, <<>>)
        ELSE IF cur.err # NoError THEN Outcome(w, cur.err, None, <<>>)
        ELSE LET saved == [w EXCEPT !.db = DatabaseManager_save_transaction(
                                               @, w.current, made.obj, is_income, ok)]
                 out == Account_add_transaction(w.accounts[cur.name], made.obj,
                                                is_income)
             IN  IF out.err # NoError
                 THEN Outcome(saved, out.err, out.info,
                              <<DbCall("save_transaction", ok)>>)
                 ELSE Outcome([saved EXCEPT !.accounts[cur.name] = out.account],
                              NoError, None, <<DbCall("save_transaction", ok)>>)

\* FinanceService.add_transaction
FinanceService_add_transaction(w, amount, description, category, is_income, today, ok) ==
    LET cat == IF is_income THEN INCOME ELSE category
        made == CategorizedTransaction(amount, today, description, cat)
        cur == FinanceService_get_current_account(w)
    IN  IF made.err # NoError THEN Outcome(w, made.err, None, <<>>)
        ELSE IF cur.err # NoError THEN Outcome(w, cur.err, None, <<>>)
        ELSE LET out == Account_add_transaction(w.accounts[cur.name], made.obj,
                                                is_income)
             IN  IF out.err # NoError THEN Outcome(w, out.err, out.info, <<>>)
                 ELSE Outcome(
                        [w EXCEPT !.accounts[cur.name] = out.account,
                                  !.db = DatabaseManager_save_transaction(
                                             @, w.current, made.obj, is_income, ok)],
                        NoError, None, <<DbCall("save_transaction", ok)>>)

\* FinanceService.add_savings_goal
FinanceService_add_savings_goal(w, name, target_amount, ok) ==
    LET new_goal == SavingsGoal(None, name, target_amount, 0)
        saved == DatabaseManager_save_goal(w.db, new_goal, ok)
    IN  IF saved.err # NoError
        THEN Outcome(w, saved.err, None, <<DbCall("save_goal", ok)>>)
        ELSE Outcome([w EXCEPT !.db = saved.db,
                               !.goals = Append(@, [new_goal EXCEPT !.id = saved.id])],
                     NoError, None, <<DbCall("save_goal", ok)>>)

\* f"Внесок до цілі: {goal.name}"
ContributionDescription(name) ==
    IF name = "Noutbuk" THEN "Vnesok do tsili: Noutbuk"
    ELSE IF name = "Vidpustka" THEN "Vnesok do tsili: Vidpustka"
    ELSE "Vnesok do tsili: "

\* next((g for g in self._goals if g.id == goal_id), None), as an index (0: None)
FindGoal(gs, goal_id) ==
    IF \E i \in 1..Len(gs) : gs[i].id = goal_id
    THEN CHOOSE i \in 1..Len(gs) :
            /\ gs[i].id = goal_id
            /\ \A j \in 1..(i - 1) : gs[j].id # goal_id
    ELSE 0

\* FinanceService.add_contribution_to_goal updating the goal before it posts
\* the expense
FinanceService_add_contribution_to_goal_goal_first(w, goal_id, amount, today, ok_tx, ok_goal) ==
    LET i == FindGoal(w.goals, goal_id)
    IN  IF i = 0 THEN Outcome(w, ValueError, None, <<>>)
        ELSE
        LET added == SavingsGoal_add_contribution(w.goals[i], amount)
            w1 == [w EXCEPT !.goals[i] = added.goal]
            posted == FinanceService_add_transaction(
                          w1, amount, ContributionDescription(w.goals[i].name),
                          SAVINGS, FALSE, today, ok_tx)
        IN  IF added.err # NoError THEN Outcome(w, added.err, None, <<>>)
            ELSE IF posted.err # NoError THEN posted
            ELSE LET updated == DatabaseManager_update_goal(posted.w.db,
                                                            added.goal, ok_goal)
                 IN  Outcome([posted.w EXCEPT !.db = updated.db], updated.err,
                             None, posted.calls \o <<DbCall("update_goal", ok_goal)>>)

\* FinanceService.add_contribution_to_goal
FinanceService_add_contribution_to_goal(w, goal_id, amount, today, ok_tx, ok_goal) ==
    LET i == FindGoal(w.goals, goal_id)
    IN  IF i = 0 THEN Outcome(w, ValueError, None, <<>>)
        ELSE
        LET posted == FinanceService_add_transaction(
                          w, amount, ContributionDescription(w.goals[i].name),
                          SAVINGS, FALSE, today, ok_tx)
        IN  IF posted.err # NoError THEN posted
            ELSE
            LET added == SavingsGoal_add_contribution(w.goals[i], amount)
                w1 == [posted.w EXCEPT !.goals[i] = added.goal]
            IN  IF added.err # NoError
                THEN Outcome(posted.w, added.err, None, posted.calls)
                ELSE LET updated == DatabaseManager_update_goal(w1.db, added.goal,
                                                                ok_goal)
                     IN  Outcome([w1 EXCEPT !.db = updated.db], updated.err,
                                 None, posted.calls \o <<DbCall("update_goal", ok_goal)>>)

\* FinanceService.generate_report: the report of the current month up to
\* today, returned as its title, its lines (the data in dict order) and its
\* total; ok is whether the report file could be written
FinanceService_generate_report(w, report_name, today, ok) ==
    LET cur == FinanceService_get_current_account(w)
        start_date == <<today[1], today[2], 1>>
        end_date == today
    IN  IF cur.err # NoError THEN [err |-> cur.err, value |-> <<>>]
        ELSE
        LET data == IF report_name = "SpendingReport"
                    THEN SpendingReport_generate(w.accounts[cur.name],
                                                 start_date, end_date)
                    ELSE IncomeReport_generate(w.accounts[cur.name],
                                               start_date, end_date)
        IN  IF data.err # NoError THEN [err |-> data.err, value |-> <<>>]
            ELSE IF ~ok THEN [err |-> IOError, value |-> <<>>]
            ELSE [err |-> NoError,
                  value |-> <<[title |-> IF report_name = "SpendingReport"
                                         THEN "Zvit pro vytraty"
                                         ELSE "Zvit pro dokhody",
                               start_date |-> start_date, end_date |-> end_date,
                               lines |-> data.value,
                               total |-> SumSeq([i \in 1..Len(data.value) |->
                                                    data.value[i].value])]>>]

\* FinanceService.add_debt numbering the debt by its place in the cache
\* (from 0) in place of the id storage returned
FinanceService_add_debt_numbers_by_place(w, name, amount, due_date, is_loan, ok) ==
    LET new_debt == Debt(None, name, amount, due_date, is_loan, FALSE)
        saved == DatabaseManager_save_debt(w.db, new_debt, ok)
    IN  IF saved.err # NoError
        THEN Outcome(w, saved.err, None, <<DbCall("save_debt", ok)>>)
        ELSE Outcome([w EXCEPT !.db = saved.db,
                               !.debts = Append(@, [new_debt EXCEPT !.id = Len(w.debts)])],
                     NoError, None, <<DbCall("save_debt", ok)>>)

\* FinanceService.add_debt
FinanceService_add_debt(w, name, amount, due_date, is_loan, ok) ==
    LET new_debt == Debt(None, name, amount, due_date, is_loan, FALSE)
        saved == DatabaseManager_save_debt(w.db, new_debt, ok)
    IN  IF saved.err # NoError
        THEN Outcome(w, saved.err, None, <<DbCall("save_debt", ok)>>)
        ELSE Outcome([w EXCEPT !.db = saved.db,
                               !.debts = Append(@, [new_debt EXCEPT !.id = saved.id])],
                     NoError, None, <<DbCall("save_debt", ok)>>)

\* next((d for d in self._debts if d.id == debt_id), None), as an index (0: None)
FindDebt(ds, debt_id) ==
    IF \E i \in 1..Len(ds) : ds[i].id = debt_id
    THEN CHOOSE i \in 1..Len(ds) :
            /\ ds[i].id = debt_id
            /\ \A j \in 1..(i - 1) : ds[j].id # debt_id
    ELSE 0

\* FinanceService.update_debt_status setting the flag of every cached debt
FinanceService_update_debt_status_marks_all(w, debt_id, is_paid, ok) ==
    LET i == FindDebt(w.debts, debt_id)
    IN  IF i = 0 THEN Outcome(w, ValueError, None, <<>>)
        ELSE LET w1 == [w EXCEPT !.debts = [j \in 1..Len(@) |->
                                              [@[j] EXCEPT !.is_paid = is_paid]]]
                 updated == DatabaseManager_update_debt(w.db, w1.debts[i], ok)
             IN  Outcome([w1 EXCEPT !.db = updated.db], updated.err, None,
                         <<DbCall("update_debt", ok)>>)

\* FinanceService.update_debt_status: the flag is set before storage is
\* updated, and stays set when the update raises
FinanceService_update_debt_status(w, debt_id, is_paid, ok) ==
    LET i == FindDebt(w.debts, debt_id)
    IN  IF i = 0 THEN Outcome(w, ValueError, None, <<>>)
        ELSE LET w1 == [w EXCEPT !.debts[i].is_paid = is_paid]
                 updated == DatabaseManager_update_debt(w.db, w1.debts[i], ok)
             IN  Outcome([w1 EXCEPT !.db = updated.db], updated.err, None,
                         <<DbCall("update_debt", ok)>>)

\* one step of sorted(..., key=value, reverse=True) that puts an item before
\* the items of equal value
InsertDescending_before_equal(sorted, item) ==
    LET k == Cardinality({i \in 1..Len(sorted) : sorted[i].value > item.value})
    IN  SubSeq(sorted, 1, k) \o <<item>> \o SubSeq(sorted, k + 1, Len(sorted))

\* one step of sorted(..., key=value, reverse=True): the sort is stable, so
\* an item goes after the items of greater or equal value that precede it
InsertDescending(sorted, item) ==
    LET k == Cardinality({i \in 1..Len(sorted) : sorted[i].value >= item.value})
    IN  SubSeq(sorted, 1, k) \o <<item>> \o SubSeq(sorted, k + 1, Len(sorted))

\* sorted(spending_data.items(), key=lambda item: item[1], reverse=True)
RECURSIVE SortedDescending(_, _)
SortedDescending(items, sorted) ==
    IF items = <<>> THEN sorted
    ELSE SortedDescending(Tail(items), InsertDescending(sorted, Head(items)))

\* FinanceService.get_spending_analysis: dict(sorted_spending[:5])
FinanceService_get_spending_analysis(w, today) ==
    LET cur == FinanceService_get_current_account(w)
    IN  IF cur.err # NoError THEN [err |-> cur.err, value |-> <<>>]
        ELSE
        LET spending_data == SpendingReport_generate(w.accounts[cur.name],
                                                     <<2000, 1, 1>>, today)
        IN  IF spending_data.err # NoError
            THEN [err |-> spending_data.err, value |-> <<>>]
            ELSE LET sorted_spending == SortedDescending(spending_data.value, <<>>)
                 IN  [err |-> NoError,
                      value |-> SubSeq(sorted_spending, 1,
                                       Min(5, Len(sorted_spending)))]

-----------------------------------------------------------------------------
(* Inputs *)

MAIN == "Osnovnyi"             \* "Основний", the account the application opens
AmountInputs == -1..MaxAmount
InitialBalances == -1..MaxInitial
InterestRates == {-1, 0, 1}     \* whole multipliers; 0.05 is no integer
JAN31 == <<2025, 1, 31>>
FEB01 == <<2025, 2, 1>>
FEB30 == <<2025, 2, 30>>       \* not a calendar date: strptime raises
Descriptions == {"Zarplata", "Khlib"}
Categories == {INCOME, "Produkty", "Transport"}

\* the transaction objects the constructors return for the given arguments
Constructed(amounts, dates, descriptions, categories) ==
    {Transaction(x[1], x[2], x[3]).obj :
        x \in {y \in amounts \X dates \X descriptions :
                 Transaction(y[1], y[2], y[3]).err = NoError}}
    \cup
    {CategorizedTransaction(x[1], x[2], x[3], x[4]).obj :
        x \in {y \in amounts \X dates \X descriptions \X categories :
                 CategorizedTransaction(y[1], y[2], y[3], y[4]).err = NoError}}

\* what a call left behind: its name, arguments, raised error (NoError when it
\* returned), the fields of the error, and the returned value as a sequence
\* and the storage calls it made, in order
ResultWithCalls(op, args, err, info, value, calls) ==
    [op |-> op, args |-> args, err |-> err, info |-> info, value |-> value,
     calls |-> calls]

Result(op, args, err, info, value) ==
    ResultWithCalls(op, args, err, info, value, <<>>)

NoGhost == [initial |-> 0, income |-> 0, expense |-> 0]

\* the history kept for an account after a call of add_transaction
Record(h, t, is_income, err) ==
    IF err # NoError THEN h
    ELSE IF is_income THEN [h EXCEPT !.income = @ + t.amount]
         ELSE [h EXCEPT !.expense = @ + t.amount]

\* accounts[n].add_transaction(t, is_income)
CallAddTransaction(n, t, is_income) ==
    LET out == Account_add_transaction(accounts[n], t, is_income)
    IN  /\ Len(out.account.transactions) <= MaxTx
        /\ out.account.balance <= MaxBalance
        /\ accounts' = [accounts EXCEPT ![n] = out.account]
        /\ applied' = [applied EXCEPT ![n] = Record(@, t, is_income, out.err)]
        /\ res' = Result("add_transaction",
                         [account |-> n, t |-> t, is_income |-> is_income],
                         out.err, out.info, <<>>)
        /\ UNCHANGED <<goals, debts, current, db>>

-----------------------------------------------------------------------------
(* The ledger alone: one Account driven directly, as the unit tests do     *)

LedgerDates == {JAN31}
LedgerDescriptions == {"Khlib"}
LedgerCategories == {INCOME, "Produkty"}
LedgerTransactions ==
    Constructed(AmountInputs, LedgerDates, LedgerDescriptions, LedgerCategories)

InitAccount ==
    /\ \E b \in InitialBalances :
         /\ \E acc \in {Account(b)} \cup {SavingsAccount(b, r) : r \in InterestRates} :
              accounts = [n \in {MAIN} |-> acc]
         /\ applied = [n \in {MAIN} |-> [NoGhost EXCEPT !.initial = b]]
    /\ goals = <<>>
    /\ debts = <<>>
    /\ current = None
    /\ db = EmptyDb
    /\ res = Result("init", <<>>, NoError, <<>>, <<>>)

\* t = Transaction(amount, date, description)
NewTransaction ==
    \E amount \in AmountInputs, date \in LedgerDates,
       description \in LedgerDescriptions :
        LET made == Transaction(amount, date, description)
        IN  /\ res' = Result("Transaction", [amount |-> amount], made.err, <<>>,
                             IF made.err = NoError THEN <<made.obj>> ELSE <<>>)
            /\ UNCHANGED <<accounts, goals, debts, current, db, applied>>

\* t = CategorizedTransaction(amount, date, description, category)
NewCategorizedTransaction ==
    \E amount \in AmountInputs, date \in LedgerDates,
       description \in LedgerDescriptions, category \in LedgerCategories :
        LET made == CategorizedTransaction(amount, date, description, category)
        IN  /\ res' = Result("Transaction", [amount |-> amount], made.err, <<>>,
                             IF made.err = NoError THEN <<made.obj>> ELSE <<>>)
            /\ UNCHANGED <<accounts, goals, debts, current, db, applied>>

\* account.add_transaction(t, is_income) on a transaction object that exists
AddTransaction ==
    \E n \in DOMAIN accounts, is_income \in BOOLEAN, t \in LedgerTransactions :
        CallAddTransaction(n, t, is_income)

\* account.apply_interest() of a SavingsAccount
ApplyInterest ==
    \E n \in DOMAIN accounts, today \in LedgerDates :
        LET out == SavingsAccount_apply_interest(accounts[n], today)
        IN  /\ accounts[n].cls = "SavingsAccount"
            /\ Len(out.account.transactions) <= MaxTx
            /\ out.account.balance <= MaxBalance
            /\ accounts' = [accounts EXCEPT ![n] = out.account]
            /\ applied' = [applied EXCEPT ![n] =
                             IF out.err # NoError THEN @
                             ELSE Record(@, out.account.transactions[
                                              Len(out.account.transactions)],
                                         TRUE, NoError)]
            /\ res' = Result("apply_interest", [account |-> n], out.err,
                             out.info, <<>>)
            /\ UNCHANGED <<goals, debts, current, db>>

NextAccount ==
    \/ NewTransaction
    \/ NewCategorizedTransaction
    \/ AddTransaction
    \/ ApplyInterest

SpecAccount == InitAccount /\ [][NextAccount]_vars

-----------------------------------------------------------------------------
(* Reports over one Account's history.  The account is built the way       *)
(* _create_default_account builds it: constructed, then given its list.    *)

ReportAmounts == {1, 2}
ReportDates == {JAN31, FEB01}
ReportCategories == {INCOME, "Produkty"}
PeriodStarts == {JAN31, FEB01, FEB30}
PeriodEnds == {JAN31, FEB01}
ReportTransactions ==
    Constructed(ReportAmounts, ReportDates, Descriptions, ReportCategories)

SeqsUpTo(S, n) == UNION {[1..k -> S] : k \in 0..n}

InitReport ==
    /\ \E txs \in SeqsUpTo(ReportTransactions, MaxReportTx) :
         accounts = [n \in {MAIN} |-> [SavingsAccount(0, 0) EXCEPT !.transactions = txs]]
    /\ applied = [n \in {MAIN} |-> NoGhost]
    /\ goals = <<>>
    /\ debts = <<>>
    /\ current = None
    /\ db = EmptyDb
    /\ res = Result("init", <<>>, NoError, <<>>, <<>>)

\* SpendingReport(account).generate(start_date, end_date)
GenerateSpendingReport ==
    \E n \in DOMAIN accounts, start_date \in PeriodStarts, end_date \in PeriodEnds :
        LET out == SpendingReport_generate(accounts[n], start_date, end_date)
        IN  /\ res' = Result("SpendingReport",
                             [account |-> n, start_date |-> start_date,
                              end_date |-> end_date],
                             out.err, <<>>, out.value)
            /\ UNCHANGED <<accounts, goals, debts, current, db, applied>>

\* IncomeReport(account).generate(start_date, end_date)
GenerateIncomeReport ==
    \E n \in DOMAIN accounts, start_date \in PeriodStarts, end_date \in PeriodEnds :
        LET out == IncomeReport_generate(accounts[n], start_date, end_date)
        IN  /\ res' = Result("IncomeReport",
                             [account |-> n, start_date |-> start_date,
                              end_date |-> end_date],
                             out.err, <<>>, out.value)
            /\ UNCHANGED <<accounts, goals, debts, current, db, applied>>

NextReport ==
    \/ GenerateSpendingReport
    \/ GenerateIncomeReport

SpecReport == InitReport /\ [][NextReport]_vars

\* account.get_transactions_by_period(start_date, end_date)
GetTransactionsByPeriod ==
    \E n \in DOMAIN accounts, start_date \in PeriodStarts, end_date \in PeriodEnds :
        LET out == Account_get_transactions_by_period(accounts[n], start_date,
                                                      end_date)
        IN  /\ res' = Result("get_transactions_by_period",
                             [account |-> n, start_date |-> start_date,
                              end_date |-> end_date],
                             out.err, <<>>, out.value)
            /\ UNCHANGED <<accounts, goals, debts, current, db, applied>>

NextPeriod == GetTransactionsByPeriod

SpecPeriod == InitReport /\ [][NextPeriod]_vars

-----------------------------------------------------------------------------
(* One SavingsGoal driven directly, as the unit tests do                   *)

InitGoal ==
    /\ \E target \in 0..MaxTarget : \E saved \in 0..target :
         goals = <<SavingsGoal(1, "Noutbuk", target, saved)>>
    /\ accounts = <<>>
    /\ applied = <<>>
    /\ debts = <<>>
    /\ current = None
    /\ db = EmptyDb
    /\ res = Result("init", <<>>, NoError, <<>>, <<>>)

\* goal.add_contribution(amount)
GoalAddContribution ==
    \E i \in 1..Len(goals), amount \in AmountInputs :
        LET out == SavingsGoal_add_contribution(goals[i], amount)
        IN  /\ goals' = [goals EXCEPT ![i] = out.goal]
            /\ res' = Result("add_contribution", [goal |-> i, amount |-> amount],
                             out.err, <<>>, <<>>)
            /\ UNCHANGED <<accounts, debts, current, db, applied>>

\* goal.get_progress()
GoalGetProgress ==
    \E i \in 1..Len(goals) :
        LET out == SavingsGoal_get_progress(goals[i])
        IN  /\ res' = Result("get_progress", [goal |-> i], out.err, <<>>,
                             <<[num |-> out.num, den |-> out.den]>>)
            /\ UNCHANGED <<accounts, goals, debts, current, db, applied>>

NextGoal ==
    \/ GoalAddContribution
    \/ GoalGetProgress

SpecGoal == InitGoal /\ [][NextGoal]_vars

-----------------------------------------------------------------------------
(* The application: the service over the account the window opens          *)

AccountNameInputs == {MAIN, "Inshyi"}
ServiceAmounts == {0, 1, 2}
GoalTargets == {1, 2}
ServiceDescriptions == {"Khlib"}
ServiceCategories == {"Produkty", INCOME}
GoalNames == {"Noutbuk"}
Today == {FEB01}
DefaultRate == "0.05"          \* SavingsAccount's default interest_rate

World == [accounts |-> accounts, current |-> current, goals |-> goals,
          debts |-> debts, db |-> db]

\* the history after a service call: what the call appended is applied
Applied(after, is_income) ==
    [n \in DOMAIN accounts |->
        IF Len(after.accounts[n].transactions) > Len(accounts[n].transactions)
        THEN Record(applied[n],
                    after.accounts[n].transactions[Len(after.accounts[n].transactions)],
                    is_income, NoError)
        ELSE applied[n]]

\* the state and the result a service call leaves
Returns(out, op, args, is_income) ==
    /\ \A n \in DOMAIN out.w.accounts :
          /\ Len(out.w.accounts[n].transactions) <= MaxTx
          /\ out.w.accounts[n].balance <= MaxBalance
    /\ Len(out.w.goals) <= MaxGoals
    /\ Len(out.w.debts) <= MaxDebts
    /\ accounts' = out.w.accounts
    /\ current' = out.w.current
    /\ goals' = out.w.goals
    /\ debts' = out.w.debts
    /\ db' = out.w.db
    /\ applied' = Applied(out.w, is_income)
    /\ res' = ResultWithCalls(op, args, out.err,
                              IF out.err = InsufficientFundsError
                              THEN out.info ELSE <<>>,
                              <<>>, out.calls)

\* FinanceAppGUI.__init__ on a new database file: the service loads the
\* debts and the goals, then the default account is built from its stored
\* transactions; no account is current yet
Init ==
    /\ db = EmptyDb
    /\ goals = DatabaseManager_load_goals(EmptyDb)
    /\ debts = DatabaseManager_load_debts(EmptyDb)
    /\ accounts = [n \in {MAIN} |-> SavingsAccount(0, DefaultRate)]
    /\ applied = [n \in {MAIN} |-> NoGhost]
    /\ current = None
    /\ res = Result("init", <<>>, NoError, <<>>, <<>>)

\* service.set_current_account(name)
SetCurrentAccount ==
    \E name \in AccountNameInputs :
        Returns(FinanceService_set_current_account(World, name),
                "set_current_account", [name |-> name], FALSE)

\* service.add_transaction(amount, description, category, is_income)
ServiceAddTransaction ==
    \E amount \in ServiceAmounts, description \in ServiceDescriptions,
       category \in ServiceCategories, is_income \in BOOLEAN, today \in Today,
       ok \in BOOLEAN :
        Returns(FinanceService_add_transaction(World, amount, description,
                                               category, is_income, today, ok),
                "add_transaction",
                [amount |-> amount, description |-> description,
                 category |-> category, is_income |-> is_income],
                is_income)

\* service.add_savings_goal(name, target_amount)
AddSavingsGoal ==
    \E name \in GoalNames, target_amount \in GoalTargets, ok \in BOOLEAN :
        Returns(FinanceService_add_savings_goal(World, name, target_amount, ok),
                "add_savings_goal",
                [name |-> name, target_amount |-> target_amount],
                FALSE)

\* service.add_contribution_to_goal(goal_id, amount)
AddContributionToGoal ==
    \E goal_id \in 1..(MaxGoals + 1), amount \in ServiceAmounts, today \in Today,
       ok_tx \in BOOLEAN, ok_goal \in BOOLEAN :
        Returns(FinanceService_add_contribution_to_goal(World, goal_id, amount,
                                                        today, ok_tx, ok_goal),
                "add_contribution_to_goal",
                [goal_id |-> goal_id, amount |-> amount],
                FALSE)

Next ==
    \/ SetCurrentAccount
    \/ ServiceAddTransaction
    \/ AddSavingsGoal
    \/ AddContributionToGoal

Spec == Init /\ [][Next]_vars

-----------------------------------------------------------------------------
(* The spending analysis, over an account that was given its history       *)
(* directly and registered before the service was built, as the benchmark  *)
(* fixture does (tests/test_benchmarks.py): the database is empty and the   *)
(* account is current.                                                     *)

AnalysisAmounts == {1, 2}
AnalysisCategories ==
    <<"Produkty", "Transport", "Komunalni", "Rozvahy", "Odiah", "Zdorovia",
      "Osvita", "Podarunky">>

Y1999 == <<1999, 12, 31>>      \* before the start date of the analysis
FEB02 == <<2025, 2, 2>>        \* after the day of the call

\* what the i-th expense of a history may be: of the i-th category or (from
\* the second on) of the first, of amount 1 or 2; the first two may be dated
\* before 2000 or after the day of the call, the fourth and later are of
\* their own category
AnalysisExpenses(i) ==
    {CategorizedTransaction(x[1], x[3], "Khlib", x[2]).obj :
        x \in AnalysisAmounts
              \X (IF i \in {2, 3}
                  THEN {AnalysisCategories[i], AnalysisCategories[1]}
                  ELSE {AnalysisCategories[i]})
              \X (IF i <= 2 THEN {JAN31, Y1999, FEB02} ELSE {JAN31})}

\* the histories of k expenses
RECURSIVE AnalysisHistories(_)
AnalysisHistories(k) ==
    IF k = 0 THEN {<<>>}
    ELSE {Append(h, e) : h \in AnalysisHistories(k - 1),
                         e \in AnalysisExpenses(k)}

InitAnalysis ==
    /\ \E k \in 0..MaxAnalysisTx :
         \E txs \in AnalysisHistories(k) :
            accounts = [n \in {MAIN} |->
                          [SavingsAccount(0, DefaultRate)
                             EXCEPT !.transactions = txs]]
    /\ applied = [n \in {MAIN} |-> NoGhost]
    /\ goals = <<>>
    /\ debts = <<>>
    /\ current = MAIN
    /\ db = EmptyDb
    /\ res = Result("init", <<>>, NoError, <<>>, <<>>)

\* service.get_spending_analysis()
GetSpendingAnalysis ==
    \E today \in Today :
        LET out == FinanceService_get_spending_analysis(World, today)
        IN  /\ res' = Result("get_spending_analysis", [today |-> today],
                             out.err, <<>>, out.value)
            /\ UNCHANGED <<accounts, goals, debts, current, db, applied>>

NextAnalysis == GetSpendingAnalysis

SpecAnalysis == InitAnalysis /\ [][NextAnalysis]_vars

-----------------------------------------------------------------------------
(* The transactions table taken alone: rows saved for two account names    *)
(* and loaded back                                                         *)

StoredNames == {MAIN, "Inshyi"}
StoredTransactions ==
    {CategorizedTransaction(amount, FEB01, "Khlib", "Produkty").obj :
        amount \in {1, 2}}

\* db.save_transaction(account_name, transaction, is_income)
SaveTransaction ==
    \E account_name \in StoredNames, t \in StoredTransactions,
       is_income \in BOOLEAN, ok \in BOOLEAN :
        /\ Len(db.transactions) < MaxRows
        /\ db' = DatabaseManager_save_transaction(db, account_name, t, is_income, ok)
        /\ res' = ResultWithCalls("save_transaction",
                                  [account_name |-> account_name, t |-> t,
                                   is_income |-> is_income],
                                  NoError, <<>>, <<>>,
                                  <<DbCall("save_transaction", ok)>>)
        /\ UNCHANGED <<accounts, goals, debts, current, applied>>

\* db.load_transactions_for_account(account_name)
LoadTransactionsForAccount ==
    \E account_name \in StoredNames, ok \in BOOLEAN :
        LET out == DatabaseManager_load_transactions_for_account(db, account_name, ok)
        IN  /\ res' = ResultWithCalls("load_transactions_for_account",
                                      [account_name |-> account_name],
                                      out.err, <<>>,
                                      <<[transactions |-> out.transactions,
                                         balance |-> out.balance]>>,
                                      <<DbCall("load_transactions_for_account", ok)>>)
            /\ UNCHANGED <<accounts, goals, debts, current, db, applied>>

NextStorage ==
    \/ SaveTransaction
    \/ LoadTransactionsForAccount

SpecStorage == Init /\ [][NextStorage]_vars

-----------------------------------------------------------------------------
(* The debts of the service                                                *)

DebtNames == {"Ivan"}
DebtAmounts == {1}
DueDates == {FEB01}

\* service.add_debt(name, amount, due_date, is_loan)
AddDebt ==
    \E name \in DebtNames, amount \in DebtAmounts, due_date \in DueDates,
       is_loan \in BOOLEAN, ok \in BOOLEAN :
        Returns(FinanceService_add_debt(World, name, amount, due_date, is_loan, ok),
                "add_debt",
                [name |-> name, amount |-> amount, due_date |-> due_date,
                 is_loan |-> is_loan],
                FALSE)

\* service.update_debt_status(debt_id, is_paid)
UpdateDebtStatus ==
    \E debt_id \in 1..(MaxDebts + 1), is_paid \in BOOLEAN, ok \in BOOLEAN :
        Returns(FinanceService_update_debt_status(World, debt_id, is_paid, ok),
                "update_debt_status",
                [debt_id |-> debt_id, is_paid |-> is_paid],
                FALSE)

NextDebt ==
    \/ SetCurrentAccount
    \/ AddDebt
    \/ UpdateDebtStatus

SpecDebt == Init /\ [][NextDebt]_vars

-----------------------------------------------------------------------------
(* The account selection and the queries of the service, over a user with  *)
(* two registered accounts, one of them named by the empty string          *)

SessionAccounts == {MAIN, ""}
SessionNameInputs == {MAIN, "", "Inshyi"}
ReportNames == {"SpendingReport", "IncomeReport"}

\* User.add_account for each account, then FinanceService(user, db_manager)
\* on a new database file
InitSession ==
    /\ db = EmptyDb
    /\ goals = DatabaseManager_load_goals(EmptyDb)
    /\ debts = DatabaseManager_load_debts(EmptyDb)
    /\ accounts = [n \in SessionAccounts |-> SavingsAccount(0, DefaultRate)]
    /\ applied = [n \in SessionAccounts |-> NoGhost]
    /\ current = None
    /\ res = Result("init", <<>>, NoError, <<>>, <<>>)

\* service.set_current_account(name)
SessionSetCurrentAccount ==
    \E name \in SessionNameInputs :
        Returns(FinanceService_set_current_account(World, name),
                "set_current_account", [name |-> name], FALSE)

\* service.get_current_account(): the account returned is recorded with the
\* name it is registered under
GetCurrentAccount ==
    LET out == FinanceService_get_current_account(World)
    IN  /\ res' = Result("get_current_account", <<>>, out.err, <<>>,
                         IF out.err = NoError
                         THEN <<[name |-> out.name, account |-> accounts[out.name]]>>
                         ELSE <<>>)
        /\ UNCHANGED <<accounts, goals, debts, current, db, applied>>

\* service.generate_report(report_type)
GenerateReport ==
    \E report_name \in ReportNames, today \in Today, ok \in BOOLEAN :
        LET out == FinanceService_generate_report(World, report_name, today, ok)
        IN  /\ res' = Result("generate_report", [report_type |-> report_name],
                             out.err, <<>>, out.value)
            /\ UNCHANGED <<accounts, goals, debts, current, db, applied>>

NextSession ==
    \/ SessionSetCurrentAccount
    \/ GetCurrentAccount
    \/ ServiceAddTransaction
    \/ GenerateReport
    \/ GetSpendingAnalysis

SpecSession == InitSession /\ [][NextSession]_vars

-----------------------------------------------------------------------------
(* Properties of the ledger (SpecAccount)                                  *)

Balance(n) == accounts[n].balance
Held(n) == accounts[n].transactions

\* C1: after any sequence of additions the balance equals the initial balance
\* plus the income amounts applied minus the expense amounts applied; a
\* rejected addition contributes nothing.
C1_BalanceIsInitialPlusApplied ==
    \A n \in DOMAIN accounts :
        Balance(n) = applied[n].initial + applied[n].income - applied[n].expense

\* C1 case: an account that has applied income and expense and has just
\* rejected an expense.
C1_Witness ==
    /\ res.op = "add_transaction" /\ res.err = InsufficientFundsError
    /\ applied[res.args.account].income > 0
    /\ applied[res.args.account].expense > 0

\* C2: an expense larger than the balance raises InsufficientFundsError
\* carrying the balance before the call and the amount, and changes neither
\* the balance nor the transaction list.
C2_RejectedExpenseChangesNothing ==
    [][ (/\ res'.op = "add_transaction"
         /\ ~res'.args.is_income
         /\ res'.args.t.amount > Balance(res'.args.account))
        => (/\ res'.err = InsufficientFundsError
            /\ res'.info.balance = Balance(res'.args.account)
            /\ res'.info.amount = res'.args.t.amount
            /\ accounts' = accounts) ]_vars

\* C2 case: a rejected expense on an account that already holds transactions.
C2_Witness ==
    /\ res.op = "add_transaction" /\ res.err = InsufficientFundsError
    /\ res.info.amount > res.info.balance
    /\ Held(res.args.account) # <<>>

\* C3: an account created with a non-negative initial balance never has a
\* negative balance, whatever additions and interest accruals were called.
C3_BalanceNeverNegative ==
    \A n \in DOMAIN accounts : applied[n].initial >= 0 => Balance(n) >= 0

\* C3 case: an expense was applied and brought the balance down to zero.
C3_Witness ==
    /\ res.op = "add_transaction" /\ res.err = NoError /\ ~res.args.is_income
    /\ applied[res.args.account].initial >= 0
    /\ Balance(res.args.account) = 0

\* C4: an expense exactly equal to the balance is accepted, appended, and
\* leaves a balance of 0.
C4_ExactBalanceExpenseAccepted ==
    [][ (/\ res'.op = "add_transaction"
         /\ ~res'.args.is_income
         /\ res'.args.t.amount = Balance(res'.args.account))
        => (/\ res'.err = NoError
            /\ accounts'[res'.args.account].balance = 0
            /\ accounts'[res'.args.account].transactions =
                   Append(Held(res'.args.account), res'.args.t)) ]_vars

\* C4 case: the last call was an accepted expense of the whole balance.
C4_Witness ==
    /\ res.op = "add_transaction" /\ res.err = NoError /\ ~res.args.is_income
    /\ Balance(res.args.account) = 0
    /\ applied[res.args.account].initial + applied[res.args.account].income
           = applied[res.args.account].expense
    /\ Len(Held(res.args.account)) >= 2

\* C5: constructing a transaction with a zero or negative amount raises
\* ValueError and yields no object; every transaction an account holds has a
\* positive amount.
C5_OnlyPositiveAmounts ==
    /\ (res.op = "Transaction" /\ res.args.amount <= 0)
          => (res.err = ValueError /\ res.value = <<>>)
    /\ \A n \in DOMAIN accounts : \A i \in 1..Len(Held(n)) : Held(n)[i].amount > 0

\* C5 case: a zero or negative amount was just refused while an account holds
\* transactions.
C5_Witness ==
    /\ res.op = "Transaction" /\ res.args.amount <= 0 /\ res.err = ValueError
    /\ \E n \in DOMAIN accounts : Held(n) # <<>>

-----------------------------------------------------------------------------
(* Properties of the reports (SpecReport)                                  *)

\* a calendar date as one number, ordered as the calendar is
DayNumber(d) == d[1] * 10000 + d[2] * 100 + d[3]

InPeriod(t, start, end) ==
    DayNumber(start) <= DayNumber(t.date) /\ DayNumber(t.date) <= DayNumber(end)

RECURSIVE SumAt(_, _)
SumAt(txs, I) ==
    IF I = {} THEN 0
    ELSE LET i == CHOOSE j \in I : TRUE
         IN  txs[i].amount + SumAt(txs, I \ {i})

\* total of the categorized transactions of a category dated in the period
SpentOn(txs, category, start, end) ==
    SumAt(txs, {i \in 1..Len(txs) :
                  /\ txs[i].cls = "CategorizedTransaction"
                  /\ txs[i].category = category
                  /\ InPeriod(txs[i], start, end)})

\* total of the income-category transactions of a description in the period
EarnedAs(txs, description, start, end) ==
    SumAt(txs, {i \in 1..Len(txs) :
                  /\ txs[i].cls = "CategorizedTransaction"
                  /\ txs[i].category = INCOME
                  /\ txs[i].description = description
                  /\ InPeriod(txs[i], start, end)})

UniqueKeys(d) == \A i, j \in 1..Len(d) : d[i].key = d[j].key => i = j

\* C6: a spending report never has the income category as a key, and the
\* value of every other category is exactly the sum of the amounts of the
\* categorized transactions of that category dated within the period.
C6_SpendingReportExact ==
    (res.op = "SpendingReport" /\ res.err = NoError) =>
        LET txs == Held(res.args.account)
            s == res.args.start_date
            e == res.args.end_date
        IN  /\ INCOME \notin DictKeys(res.value)
            /\ UniqueKeys(res.value)
            /\ \A k \in DictKeys(res.value) :
                   DictGet(res.value, k) = SpentOn(txs, k, s, e)
            /\ \A c \in ReportCategories \ {INCOME} :
                   SpentOn(txs, c, s, e) > 0 => c \in DictKeys(res.value)

\* C6 case: a non-empty spending report over a period in which the history
\* also holds an income-category transaction.
C6_Witness ==
    /\ res.op = "SpendingReport" /\ res.err = NoError
    /\ res.value # <<>>
    /\ \E i \in 1..Len(Held(res.args.account)) :
          /\ Held(res.args.account)[i].category = INCOME
          /\ InPeriod(Held(res.args.account)[i], res.args.start_date,
                      res.args.end_date)

\* C7: an income report aggregates only income-category transactions, keyed
\* by description, and each value is the sum of the amounts of the
\* income-category transactions of that description dated within the period.
C7_IncomeReportExact ==
    (res.op = "IncomeReport" /\ res.err = NoError) =>
        LET txs == Held(res.args.account)
            s == res.args.start_date
            e == res.args.end_date
        IN  /\ UniqueKeys(res.value)
            /\ \A k \in DictKeys(res.value) :
                   /\ EarnedAs(txs, k, s, e) > 0
                   /\ DictGet(res.value, k) = EarnedAs(txs, k, s, e)
            /\ \A d \in Descriptions :
                   EarnedAs(txs, d, s, e) > 0 => d \in DictKeys(res.value)

\* C7 case: an income report over a history that also holds a spending
\* transaction dated within the period.
C7_Witness ==
    /\ res.op = "IncomeReport" /\ res.err = NoError
    /\ res.value # <<>>
    /\ \E j \in 1..Len(Held(res.args.account)) :
          /\ Held(res.args.account)[j].category = "Produkty"
          /\ InPeriod(Held(res.args.account)[j], res.args.start_date,
                      res.args.end_date)

-----------------------------------------------------------------------------
(* Properties of a savings goal (SpecGoal)                                 *)

-----------------------------------------------------------------------------
(* Properties of the service (Spec)                                        *)

\* C10: when the expense behind a goal contribution is rejected with
\* InsufficientFundsError, the goal's current amount is unchanged, update_goal
\* is not called on storage, and the account's balance and transaction list
\* are unchanged.
C10_ContributionAtomic ==
    [][ (res'.op = "add_contribution_to_goal" /\ res'.err = InsufficientFundsError)
        => (/\ goals' = goals
            /\ accounts' = accounts
            /\ db' = db
            /\ \A k \in 1..Len(res'.calls) : res'.calls[k].call # "update_goal") ]_vars

\* C10 case: a contribution to an existing, unfinished goal was rejected for
\* insufficient funds on an account that holds transactions.
C10_Witness ==
    /\ res.op = "add_contribution_to_goal" /\ res.err = InsufficientFundsError
    /\ FindGoal(goals, res.args.goal_id) # 0
    /\ goals[FindGoal(goals, res.args.goal_id)].current_amount
           < goals[FindGoal(goals, res.args.goal_id)].target_amount
    /\ current # None /\ Held(current) # <<>>

\* the descriptions add_contribution_to_goal gives its expenses
ContributionDescriptions == {ContributionDescription(n) : n \in GoalNames}

\* total of the goal-contribution expenses held in a transaction list
ContributedIn(txs) ==
    SumAt(txs, {i \in 1..Len(txs) :
                  /\ txs[i].cls = "CategorizedTransaction"
                  /\ txs[i].category = SAVINGS
                  /\ txs[i].description \in ContributionDescriptions})

RECURSIVE ContributedInAccounts(_)
ContributedInAccounts(N) ==
    IF N = {} THEN 0
    ELSE LET n == CHOOSE m \in N : TRUE
         IN  ContributedIn(Held(n)) + ContributedInAccounts(N \ {n})

\* total of the goal-contribution expense rows of the transactions table
ContributedInStorage ==
    SumAt(db.transactions,
          {i \in 1..Len(db.transactions) :
              /\ db.transactions[i].is_income = 0
              /\ db.transactions[i].category = SAVINGS
              /\ db.transactions[i].description \in ContributionDescriptions})

\* progress of the goals since they were created (no goal is older than the
\* service: the database starts empty, and a new goal starts at 0)
ProgressInMemory == SumSeq([i \in 1..Len(goals) |-> goals[i].current_amount])
ProgressInStorage ==
    SumSeq([i \in 1..Len(db.goals) |-> db.goals[i].current_amount])

\* C11 (in memory): the progress of the goals never exceeds what the goal
\* contributions deducted from the accounts.
C11_ProgressWithinDeductedInMemory ==
    ProgressInMemory <= ContributedInAccounts(DOMAIN accounts)

\* C11: the total progress recorded on the goals never exceeds the total the
\* goal-contribution expenses deducted from the accounts, in memory and in
\* what has been persisted to storage.
C11_ProgressWithinDeducted ==
    /\ ProgressInMemory <= ContributedInAccounts(DOMAIN accounts)
    /\ ProgressInStorage <= ContributedInStorage

-----------------------------------------------------------------------------
(* Properties of the spending analysis (SpecAnalysis)                      *)

\* the spending categories of a history and what was spent on each
SpendingCategories(txs) ==
    {txs[i].category : i \in {j \in 1..Len(txs) :
                                /\ txs[j].cls = "CategorizedTransaction"
                                /\ txs[j].category # INCOME}}

SpentEver(txs, category) ==
    SumAt(txs, {i \in 1..Len(txs) :
                  /\ txs[i].cls = "CategorizedTransaction"
                  /\ txs[i].category = category})

\* where a category first appears in a history
FirstAt(txs, category) ==
    CHOOSE i \in 1..Len(txs) :
        /\ txs[i].cls = "CategorizedTransaction" /\ txs[i].category = category
        /\ \A j \in 1..(i - 1) :
              ~(txs[j].cls = "CategorizedTransaction" /\ txs[j].category = category)

\* C12: get_spending_analysis returns at most 5 entries, each a spending
\* category of the current account, ordered by amount descending, categories
\* of equal amount in the order in which they first appeared in the account's
\* history, and no omitted category of the history has a larger amount than
\* a returned one.
C12_TopFiveDescendingStable ==
    (res.op = "get_spending_analysis" /\ res.err = NoError) =>
        LET r == res.value
            txs == Held(current)
        IN  /\ Len(r) <= 5
            /\ UniqueKeys(r)
            /\ \A i \in 1..Len(r) : r[i].key \in SpendingCategories(txs)
            /\ \A i, j \in 1..Len(r) :
                  i < j => /\ r[i].value >= r[j].value
                           /\ r[i].value = r[j].value
                                => FirstAt(txs, r[i].key) < FirstAt(txs, r[j].key)
            /\ \A c \in SpendingCategories(txs) \ DictKeys(r) :
                  \A i \in 1..Len(r) : SpentEver(txs, c) <= r[i].value

\* C12 case: an analysis of a history with more than 5 categories returned 5
\* of them, two of equal amount among them and two of different amounts.
C12_Witness ==
    /\ res.op = "get_spending_analysis" /\ res.err = NoError
    /\ Len(res.value) = 5
    /\ Cardinality(SpendingCategories(Held(current))) > 5
    /\ \E i, j \in 1..5 : i < j /\ res.value[i].value = res.value[j].value
    /\ \E i, j \in 1..5 : res.value[i].value > res.value[j].value

\* the transactions of a history that the analysis of a given day counts, and
\* the categories, amounts and first appearances among them
CountedAt(txs, today) ==
    {i \in 1..Len(txs) :
        /\ txs[i].cls = "CategorizedTransaction"
        /\ txs[i].category # INCOME
        /\ date_le(<<2000, 1, 1>>, txs[i].date)
        /\ date_le(txs[i].date, today)}

CountedCategories(txs, today) == {txs[i].category : i \in CountedAt(txs, today)}

CountedOn(txs, category, today) ==
    SumAt(txs, {i \in CountedAt(txs, today) : txs[i].category = category})

FirstCountedAt(txs, category, today) ==
    CHOOSE i \in CountedAt(txs, today) :
        /\ txs[i].category = category
        /\ \A j \in CountedAt(txs, today) : txs[j].category = category => i <= j

\* What holds of the analysis: the statement of C12 read over the transactions
\* dated from 2000-01-01 to the day of the call.
C12_TopFiveOfCountedDescendingStable ==
    (res.op = "get_spending_analysis" /\ res.err = NoError) =>
        LET r == res.value
            txs == Held(current)
            today == res.args.today
        IN  /\ Len(r) <= 5
            /\ UniqueKeys(r)
            /\ \A i \in 1..Len(r) :
                  /\ r[i].key \in CountedCategories(txs, today)
                  /\ r[i].value = CountedOn(txs, r[i].key, today)
            /\ \A i, j \in 1..Len(r) :
                  i < j => /\ r[i].value >= r[j].value
                           /\ r[i].value = r[j].value
                                => FirstCountedAt(txs, r[i].key, today)
                                     < FirstCountedAt(txs, r[j].key, today)
            /\ \A c \in CountedCategories(txs, today) \ DictKeys(r) :
                  /\ Len(r) = 5
                  /\ \A i \in 1..Len(r) : CountedOn(txs, c, today) <= r[i].value

\* C26: every non-income categorized transaction held by the active account,
\* whatever its date, contributes to the totals the top 5 are chosen from:
\* each spending category of the history is either returned with the total
\* of all its transactions, or left out of a full list of 5 none of which
\* has a smaller total.
C26_WholeHistoryAggregated ==
    (res.op = "get_spending_analysis" /\ res.err = NoError) =>
        LET r == res.value
            txs == Held(current)
        IN  \A c \in SpendingCategories(txs) :
               \/ \E i \in 1..Len(r) :
                     r[i].key = c /\ r[i].value = SpentEver(txs, c)
               \/ /\ Len(r) = 5
                  /\ \A i \in 1..Len(r) : r[i].value >= SpentEver(txs, c)

-----------------------------------------------------------------------------
(* Properties of the service's state machine (SpecDebt, SpecSession, Spec) *)

\* C13: while no set_current_account call has succeeded, every operation
\* other than set_current_account fails with the state error (ValueError) and
\* changes no account, debt, goal or storage state.
C13_UninitializedRejectsAll ==
    [][ (current = None /\ res'.op # "set_current_account")
        => (/\ res'.err = ValueError
            /\ accounts' = accounts
            /\ debts' = debts
            /\ goals' = goals
            /\ db' = db) ]_vars

\* C14: set_current_account with a name that is not a key of the user's
\* accounts fails with ValueError and leaves the current-account selection
\* as it was.
C14_AbsentNameRejected ==
    [][ (res'.op = "set_current_account" /\ res'.args.name \notin DOMAIN accounts)
        => (res'.err = ValueError /\ current' = current) ]_vars

\* C14 case: an absent name was rejected while an account was current, and
\* that account is still current.
C14_Witness ==
    /\ res.op = "set_current_account"
    /\ res.args.name \notin DOMAIN accounts
    /\ res.err = ValueError
    /\ current = MAIN

\* C15: the selection changes only by a successful set_current_account and
\* is then the name set, so it is the most recently set name; and
\* get_current_account fails if and only if no set_current_account has
\* succeeded so far, returning otherwise the account registered under the
\* most recently set name.
C15_CurrentAccountOnceSet ==
    [][ /\ current' # current
            => (res'.op = "set_current_account" /\ res'.err = NoError)
        /\ (res'.op = "set_current_account" /\ res'.err = NoError)
            => (current' = res'.args.name /\ current' \in DOMAIN accounts)
        /\ res'.op = "get_current_account"
            => (/\ res'.err # NoError <=> current = None
                /\ res'.err = NoError
                     => res'.value = <<[name |-> current,
                                        account |-> accounts[current]]>>) ]_vars

\* C15, for accounts whose name is not the empty string: the same statement
\* with the selection of the account named "" left out.
C15_CurrentAccountOnceSetNamed ==
    [][ /\ current' # current
            => (res'.op = "set_current_account" /\ res'.err = NoError)
        /\ (res'.op = "set_current_account" /\ res'.err = NoError)
            => (current' = res'.args.name /\ current' \in DOMAIN accounts)
        /\ (res'.op = "get_current_account" /\ current # "")
            => (/\ res'.err # NoError <=> current = None
                /\ res'.err = NoError
                     => res'.value = <<[name |-> current,
                                        account |-> accounts[current]]>>) ]_vars

\* C16: a transaction added by add_transaction with is_income true has the
\* income category in the account's list and in the persisted row, whatever
\* category the caller gave; with is_income false it has the caller's category.
C16_IncomeCategoryForced ==
    [][ (res'.op = "add_transaction" /\ res'.err = NoError)
        => LET txs == accounts'[current'].transactions
               rows == db'.transactions
               category == IF res'.args.is_income THEN INCOME
                           ELSE res'.args.category
           IN  /\ Len(txs) = Len(accounts[current'].transactions) + 1
               /\ txs[Len(txs)].category = category
               /\ Len(rows) > Len(db.transactions)
                    => /\ rows[Len(rows)].category = category
                       /\ rows[Len(rows)].is_income
                             = (IF res'.args.is_income THEN 1 ELSE 0) ]_vars

\* C16 case: an income given the category "Produkty" was added and persisted.
C16_Witness ==
    /\ res.op = "add_transaction" /\ res.err = NoError
    /\ res.args.is_income /\ res.args.category = "Produkty"
    /\ res.calls = <<DbCall("save_transaction", TRUE)>>
    /\ Held(current)[Len(Held(current))].category = INCOME
    /\ db.transactions[Len(db.transactions)].category = INCOME

\* C17: when save_transaction fails during add_transaction, the account keeps
\* the applied change: its balance moved by the amount and the transaction
\* is appended to its list.
C17_SaveFailureNotRolledBack ==
    [][ (res'.op = "add_transaction"
         /\ res'.calls = <<DbCall("save_transaction", FALSE)>>)
        => LET a == res'.args
               before == accounts[current]
               after == accounts'[current]
           IN  /\ after.balance = IF a.is_income THEN before.balance + a.amount
                                  ELSE before.balance - a.amount
               /\ Len(after.transactions) = Len(before.transactions) + 1
               /\ SubSeq(after.transactions, 1, Len(before.transactions))
                     = before.transactions
               /\ after.transactions[Len(after.transactions)].amount = a.amount
               /\ after.transactions[Len(after.transactions)].description
                     = a.description ]_vars

\* C17 case: an expense was applied to the current account while its row
\* could not be saved, and storage holds fewer rows than the account holds
\* transactions.
C17_Witness ==
    /\ res.op = "add_transaction"
    /\ res.calls = <<DbCall("save_transaction", FALSE)>>
    /\ ~res.args.is_income
    /\ Len(db.transactions) < Len(Held(current))

\* C18: whenever a storage call made by a service operation fails, the
\* operation fails: the failure is raised to its caller.
C18_PersistenceFailureSurfaced ==
    (\E k \in 1..Len(res.calls) : ~res.calls[k].ok) => res.err # NoError

-----------------------------------------------------------------------------
(* Properties of the debts (SpecDebt)                                      *)

\* C19: each successful add_debt appends exactly one unpaid Debt of the given
\* fields carrying the id save_debt returned (the id of the row it inserted);
\* the ids of the cached debts are pairwise distinct in every state; and no
\* operation removes a cached debt or changes its id.
C19_DebtsAppendedWithFreshIds ==
    /\ [](\A i, j \in 1..Len(debts) : debts[i].id = debts[j].id => i = j)
    /\ [][ /\ (res'.op = "add_debt" /\ res'.err = NoError)
               => /\ Len(db'.debts) = Len(db.debts) + 1
                  /\ debts' = Append(debts,
                                     Debt(db'.debts[Len(db'.debts)].id,
                                          res'.args.name, res'.args.amount,
                                          res'.args.due_date, res'.args.is_loan,
                                          FALSE))
           /\ Len(debts') >= Len(debts)
           /\ \A i \in 1..Len(debts) : debts'[i].id = debts[i].id ]_vars

\* C19 case: a second debt was added after the first had been marked paid,
\* and both are cached under different ids.
C19_Witness ==
    /\ res.op = "add_debt" /\ res.err = NoError
    /\ Len(debts) = 2
    /\ debts[1].is_paid /\ ~debts[2].is_paid
    /\ debts[1].id # debts[2].id
    /\ debts[2].id = db.debts[2].id

\* C20: update_debt_status with an id that no cached debt has fails with
\* ValueError, makes no storage call and changes no cached debt and no stored
\* row; with an id a cached debt has, it sets the is_paid flag of that debt to
\* the given value and changes no other debt and no other field.
C20_UpdateDebtStatusFrame ==
    [][ res'.op = "update_debt_status"
        => IF \A i \in 1..Len(debts) : debts[i].id # res'.args.debt_id
           THEN /\ res'.err = ValueError
                /\ res'.calls = <<>>
                /\ debts' = debts
                /\ db' = db
           ELSE \E i \in 1..Len(debts) :
                   /\ debts[i].id = res'.args.debt_id
                   /\ debts' = [debts EXCEPT ![i].is_paid = res'.args.is_paid] ]_vars

\* C20 case: one of two cached debts was marked paid and the other is still
\* unpaid.
C20_Witness ==
    /\ res.op = "update_debt_status" /\ res.args.is_paid
    /\ Len(debts) = 2
    /\ \E i, j \in 1..2 :
          /\ debts[i].id = res.args.debt_id /\ debts[i].is_paid
          /\ i # j /\ ~debts[j].is_paid

-----------------------------------------------------------------------------
(* Properties of the caches against storage (SpecDebt, Spec)               *)

\* the caches hold what load_debts and load_goals would return
InSync ==
    /\ debts = DatabaseManager_load_debts(db)
    /\ goals = DatabaseManager_load_goals(db)

CacheOperations ==
    {"add_debt", "update_debt_status", "add_savings_goal",
     "add_contribution_to_goal"}

-----------------------------------------------------------------------------
(* Properties of the transactions table (SpecStorage)                      *)

\* the stored rows of an account name, in the order they were saved
RowsOf(name) ==
    LET I == {i \in 1..Len(db.transactions) :
                 db.transactions[i].account_name = name}
        nth(k) == CHOOSE i \in I : Cardinality({j \in I : j < i}) = k - 1
    IN  [k \in 1..Cardinality(I) |-> db.transactions[nth(k)]]

\* what a list of rows is as transactions, and the balance they add up to
RowsAsLoaded(rows) ==
    [transactions |->
        [k \in 1..Len(rows) |->
            [cls |-> "CategorizedTransaction", amount |-> rows[k].amount,
             date |-> rows[k].date, description |-> rows[k].description,
             category |-> rows[k].category]],
     balance |->
        SumSeq([k \in 1..Len(rows) |->
                   IF rows[k].is_income = 1 THEN rows[k].amount
                   ELSE 0 - rows[k].amount])]

\* C22: load_transactions_for_account(name) returns exactly the rows saved
\* for that account name and none of another, in the order they were saved,
\* with a balance equal to the sum of +amount over the income rows and
\* -amount over the others.
C22_LoadReturnsSaved ==
    res.op = "load_transactions_for_account"
        => /\ res.err = NoError
           /\ res.value = <<RowsAsLoaded(RowsOf(res.args.account_name))>>

\* C22, for a load whose query did not fail.
C22_LoadReturnsSavedWhenQuerySucceeds ==
    (res.op = "load_transactions_for_account" /\ res.calls[1].ok)
        => /\ res.err = NoError
           /\ res.value = <<RowsAsLoaded(RowsOf(res.args.account_name))>>

-----------------------------------------------------------------------------
(* Properties of the period query (SpecPeriod)                             *)

\* C23: get_transactions_by_period(start, end), for calendar dates start and
\* end, returns exactly the transactions dated from start to end, both
\* included, in the order of the account's list, and is empty when start is
\* after end; it raises ValueError for a bound that is no calendar date; and
\* it never changes the account.
C23_PeriodIsInclusiveSubsequence ==
    /\ [](res.op = "get_transactions_by_period"
            => LET a == res.args
               IN  IF strptime_ok(a.start_date) /\ strptime_ok(a.end_date)
                   THEN /\ res.err = NoError
                        /\ res.value
                             = SelectSeq(Held(a.account),
                                         LAMBDA t : InPeriod(t, a.start_date,
                                                             a.end_date))
                        /\ DayNumber(a.start_date) > DayNumber(a.end_date)
                             => res.value = <<>>
                   ELSE res.err = ValueError)
    /\ [][res'.op = "get_transactions_by_period" => accounts' = accounts]_vars

\* C23 case: of two transactions the query returned the one dated on the day
\* that is both the start and the end of the period.
C23_Witness ==
    /\ res.op = "get_transactions_by_period" /\ res.err = NoError
    /\ res.args.start_date = res.args.end_date
    /\ Len(Held(res.args.account)) = 2
    /\ Len(res.value) = 1
    /\ res.value[1] = Held(res.args.account)[2]
    /\ res.value[1].date = res.args.end_date

-----------------------------------------------------------------------------
(* Further properties of a savings goal (SpecGoal)                         *)

\* C24: add_contribution(amount) with amount <= 0 raises ValueError and leaves
\* the goal as it was; with amount > 0 it returns and sets current_amount to
\* min(current_amount + amount, target_amount), changing nothing else.
C24_ContributionValidatedAndClamped ==
    [][ res'.op = "add_contribution"
        => LET i == res'.args.goal
               amount == res'.args.amount
           IN  IF amount <= 0
               THEN res'.err = ValueError /\ goals' = goals
               ELSE /\ res'.err = NoError
                    /\ goals' = [goals EXCEPT ![i].current_amount =
                                    Min(@ + amount, goals[i].target_amount)] ]_vars

\* C24 case: a positive contribution was accepted and the goal is still short
\* of its target.
C24_Witness ==
    /\ res.op = "add_contribution" /\ res.err = NoError
    /\ res.args.amount > 0
    /\ goals[res.args.goal].current_amount >= res.args.amount
    /\ goals[res.args.goal].current_amount < goals[res.args.goal].target_amount

-----------------------------------------------------------------------------
(* Further properties of the service (Spec)                                *)

\* the one transaction a step appended to the current account is a savings
\* expense of the given amount, and the balance went down by it
PairedExpense(amount) ==
    LET before == accounts[current]
        after == accounts'[current]
    IN  /\ current' = current
        /\ Len(after.transactions) = Len(before.transactions) + 1
        /\ SubSeq(after.transactions, 1, Len(before.transactions))
              = before.transactions
        /\ after.transactions[Len(after.transactions)].amount = amount
        /\ after.transactions[Len(after.transactions)].category = SAVINGS
        /\ after.balance = before.balance - amount

\* what a step added to the goal of the given id
AddedToGoal(goal_id) ==
    LET i == CHOOSE j \in 1..Len(goals) : goals[j].id = goal_id
    IN  goals'[i].current_amount - goals[i].current_amount

\* C25: every successful add_contribution_to_goal(goal_id, amount) comes with
\* exactly one expense on the active account, of the contribution's amount
\* and of the savings category, and the amount added to the goal equals the
\* amount deducted from the account.
C25_ContributionEqualsDeduction ==
    [][ (res'.op = "add_contribution_to_goal" /\ res'.err = NoError)
        => /\ PairedExpense(res'.args.amount)
           /\ AddedToGoal(res'.args.goal_id)
                 = accounts[current].balance - accounts'[current].balance ]_vars

\* C25, first half: the expense that comes with a successful contribution.
C25_ContributionPairedWithExpense ==
    [][ (res'.op = "add_contribution_to_goal" /\ res'.err = NoError)
        => /\ PairedExpense(res'.args.amount)
           /\ AddedToGoal(res'.args.goal_id)
                 = Min(res'.args.amount,
                       LET i == CHOOSE j \in 1..Len(goals) :
                                    goals[j].id = res'.args.goal_id
                       IN  goals[i].target_amount - goals[i].current_amount) ]_vars

-----------------------------------------------------------------------------
(* Properties of SavingsAccount.apply_interest (SpecAccount)               *)

\* what a successful apply_interest does to account n
InterestBooked(n) ==
    LET interest_amount == accounts[n].balance * accounts[n].interest_rate
        txs == accounts'[n].transactions
    IN  /\ res'.err = NoError
        /\ Len(txs) = Len(accounts[n].transactions) + 1
        /\ SubSeq(txs, 1, Len(txs) - 1) = accounts[n].transactions
        /\ txs[Len(txs)].cls = "CategorizedTransaction"
        /\ txs[Len(txs)].category = INCOME
        /\ txs[Len(txs)].amount = interest_amount
        /\ accounts'[n].balance = accounts[n].balance + interest_amount

\* C27: for every SavingsAccount state, apply_interest succeeds, appends
\* exactly one transaction of the income category whose amount is
\* balance * interest_rate, and increases the balance by that amount.
C27_ApplyInterestAlwaysBooks ==
    [][ res'.op = "apply_interest" => InterestBooked(res'.args.account) ]_vars

\* What holds of apply_interest: it books the interest when the interest is
\* positive, and otherwise raises ValueError and leaves the account as it was.
C27_ApplyInterestBooksPositiveInterest ==
    [][ res'.op = "apply_interest" =>
          LET n == res'.args.account
          IN  IF accounts[n].balance * accounts[n].interest_rate > 0
              THEN InterestBooked(n)
              ELSE res'.err = ValueError /\ accounts'[n] = accounts[n] ]_vars

-----------------------------------------------------------------------------
(* The reports against the balance (SpecSession)                           *)

\* sum(report.values())
RECURSIVE DictTotal(_)
DictTotal(d) == IF d = <<>> THEN 0 ELSE Head(d).value + DictTotal(Tail(d))

\* the totals of the two reports of account n over 2000-01-01 .. 2025-02-01,
\* a period that covers every transaction the service has dated
IncomeReported(n) ==
    DictTotal(IncomeReport_generate(accounts[n], <<2000, 1, 1>>, FEB01).value)

SpendingReported(n) ==
    DictTotal(SpendingReport_generate(accounts[n], <<2000, 1, 1>>, FEB01).value)

\* C28: for an account whose transactions were all added through
\* FinanceService.add_transaction, over a period covering all of them the
\* total of the income report minus the total of the spending report equals
\* the current balance minus the initial balance, whatever the calls and the
\* categories supplied.
C28_ReportsAgreeWithBalance ==
    \A n \in DOMAIN accounts :
        IncomeReported(n) - SpendingReported(n) = Balance(n) - applied[n].initial

\* What holds of the reports: together they count every accepted transaction
\* once, the income report holds at least the income applied and the
\* spending report at most the expenses applied (an expense filed under the
\* income category is reported as income).
C28_ReportsCountEveryTransactionOnce ==
    \A n \in DOMAIN accounts :
        /\ IncomeReported(n) + SpendingReported(n)
             = applied[n].income + applied[n].expense
        /\ IncomeReported(n) >= applied[n].income
        /\ SpendingReported(n) <= applied[n].expense

-----------------------------------------------------------------------------
(* Storage against memory (SpecSession, Spec)                              *)

\* s is a subsequence of t, in the same order
RECURSIVE IsSubsequence(_, _)
IsSubsequence(s, t) ==
    IF s = <<>> THEN TRUE
    ELSE IF t = <<>> THEN FALSE
    ELSE IF Head(s) = Head(t) THEN IsSubsequence(Tail(s), Tail(t))
    ELSE IsSubsequence(s, Tail(t))

\* every stored row belongs to a registered account, and the rows of each
\* account are, as transactions, a subsequence of what the account holds
StorageWithinMemory ==
    /\ \A i \in 1..Len(db.transactions) :
          db.transactions[i].account_name \in DOMAIN accounts
    /\ \A n \in DOMAIN accounts :
          IsSubsequence(RowsAsLoaded(RowsOf(n)).transactions, Held(n))

\* C29: storage never gets ahead of memory: an add_transaction call rejected
\* for a non-positive amount, an unset current account or insufficient funds
\* writes no row, an accepted one writes at most the row of the transaction
\* it appended, and the rows persisted for an account are always a
\* subsequence, in the same order, of the transactions the account holds.
C29_StorageNeverAheadOfMemory ==
    /\ []StorageWithinMemory
    /\ [][ res'.op = "add_transaction" =>
             IF res'.err # NoError
             THEN db' = db /\ accounts' = accounts
             ELSE /\ Len(Held(current)') = Len(Held(current)) + 1
                  /\ Len(db'.transactions) <= Len(db.transactions) + 1
                  /\ SubSeq(db'.transactions, 1, Len(db.transactions))
                       = db.transactions ]_vars

\* C29 case: an expense was rejected for insufficient funds while the account
\* holds more transactions than storage has rows for it, storage having some.
C29_Witness ==
    /\ res.op = "add_transaction" /\ res.err = InsufficientFundsError
    /\ current = MAIN
    /\ Len(RowsOf(MAIN)) >= 1
    /\ Len(RowsOf(MAIN)) < Len(Held(MAIN))

\* the balance load_transactions_for_account recomputes for an account name
\* when its query succeeds
ReloadedBalance(n) ==
    DatabaseManager_load_transactions_for_account(db, n, TRUE).balance

\* C30: for an account built from load_transactions_for_account and then
\* changed only through the service, the balance that
\* load_transactions_for_account would recompute from storage equals the
\* balance in memory and is not negative, in every reachable state, those
\* after a save_transaction failure included.
C30_ReloadedBalanceIsMemoryBalance ==
    \A n \in DOMAIN accounts :
        ReloadedBalance(n) = Balance(n) /\ ReloadedBalance(n) >= 0

\* What holds of the reloaded balance: it is the balance in memory, and not
\* negative, for as long as storage has a row for every transaction held.
C30_ReloadedBalanceWhileNothingLost ==
    \A n \in DOMAIN accounts :
        Len(RowsOf(n)) = Len(Held(n))
            => ReloadedBalance(n) = Balance(n) /\ ReloadedBalance(n) >= 0

=============================================================================
